---- MODULE Spec2Model ----
(***************************************************************************)
(* Recursive-descent parser of src/parser/mod.rs as a state machine.       *)
(*                                                                         *)
(* The parser is a sequential computation over a token stream.  Its state  *)
(* is the record `parser` (the lexer position, `prev` and `curr`), and the *)
(* outcome of parse_program is `result`.  Every parsing method of the      *)
(* source is an operator that takes the parser state and returns a record  *)
(*   [ok, val, err, p]                                                     *)
(* standing for Result<T, ErrorInfo> together with the parser state the    *)
(* method leaves behind (the source mutates self).                         *)
(*                                                                         *)
(* A token type is [tag, val]; val is the payload of Identifier, Number    *)
(* and String and "" otherwise.  A span is the 1-based index of the token  *)
(* in the stream (0 for the Eof placeholder of Parser::new).  The token    *)
(* source returns Eof forever once the stream is exhausted.                *)
(* Option<T> is a sequence of length at most one.                          *)
(***************************************************************************)
EXTENDS Integers, Sequences, FiniteSets, TLC

VARIABLES input, parser, result, pc

vars == <<input, parser, result, pc>>

(***************************************************************************)
(* Tokens                                                                  *)
(***************************************************************************)
T(tag) == [tag |-> tag, val |-> ""]

Identifier(name) == [tag |-> "Identifier", val |-> name]

Number(x) == [tag |-> "Number", val |-> x]

String(x) == [tag |-> "String", val |-> x]

TokenInfo(token, span) == [token |-> token, span |-> span]

(***************************************************************************)
(* Results and errors                                                      *)
(***************************************************************************)
NoToken == T("")

NoErr == [kind |-> "", msg |-> "", expected |-> "", found |-> NoToken, span |-> 0]

NoVal == [kind |-> ""]

Ok(v, p) == [ok |-> TRUE, val |-> v, err |-> NoErr, p |-> p]

\* an error is raised in parser state p: the state keeps, in `raised`, the
\* error with the number of tokens pulled and of statements pushed so far
Err(e, p) ==
    [ok |-> FALSE, val |-> NoVal, err |-> e,
     p |-> [p EXCEPT !.raised = Append(@, [err |-> e, idx |-> p.idx, pushed |-> p.pushed])]]

\* Error::Parse(msg) with a span
ParseError(msg, span) ==
    [kind |-> "Parse", msg |-> msg, expected |-> "", found |-> NoToken, span |-> span]

\* Error::Syntax(format!("Expected: \"{}\" Found: \"{}\"", expected, found)) with a span
SyntaxError(expected, found, span) ==
    [kind |-> "Syntax", msg |-> "Expected Found", expected |-> expected,
     found |-> found, span |-> span]

(***************************************************************************)
(* Expression nodes                                                        *)
(***************************************************************************)
LiteralType(type, x) == [type |-> type, v |-> x]

Literal(value, span) == [kind |-> "Literal", value |-> value, span |-> span]

Variable(name, span) == [kind |-> "Variable", name |-> name, span |-> span]

Grouping(expr, span) == [kind |-> "Grouping", expr |-> expr, span |-> span]

Super(name, span) == [kind |-> "Super", name |-> name, span |-> span]

Get(object, name, span) ==
    [kind |-> "Get", object |-> object, name |-> name, span |-> span]

Unary(op, right, span) ==
    [kind |-> "Unary", op |-> op, right |-> right, span |-> span]

Binary(left, op, right, span) ==
    [kind |-> "Binary", left |-> left, op |-> op, right |-> right, span |-> span]

Logical(left, op, right, span) ==
    [kind |-> "Logical", left |-> left, op |-> op, right |-> right, span |-> span]

Assign(name, value, span) ==
    [kind |-> "Assign", name |-> name, value |-> value, span |-> span]

Set(object, name, value, span) ==
    [kind |-> "Set", object |-> object, name |-> name, value |-> value, span |-> span]

\* The Call variant the expression visitor dispatches on; the parser never builds it.
Call(callee, paren, args, span) ==
    [kind |-> "Call", callee |-> callee, paren |-> paren, args |-> args, span |-> span]

(***************************************************************************)
(* Statement nodes                                                         *)
(***************************************************************************)
StmtExpr(expr, span) == [kind |-> "Expr", expr |-> expr, span |-> span]

StmtPrt(expr, span) == [kind |-> "Print", expr |-> expr, span |-> span]

StmtReturn(value, span) == [kind |-> "Return", value |-> value, span |-> span]

StmtBlock(stmt, span) == [kind |-> "Block", stmt |-> stmt, span |-> span]

StmtLet(name, value, is_const, span) ==
    [kind |-> "Let", name |-> name, value |-> value, is_const |-> is_const, span |-> span]

StmtIf(condition, truthy, falsy, span) ==
    [kind |-> "If", condition |-> condition, truthy |-> truthy, falsy |-> falsy,
     span |-> span]

StmtWhile(condition, body, span) ==
    [kind |-> "While", condition |-> condition, body |-> body, span |-> span]

StmtFor(initializer, condition, increment, body, span) ==
    [kind |-> "For", initializer |-> initializer, condition |-> condition,
     increment |-> increment, body |-> body, span |-> span]

StmtFunction(name, params, body, span) ==
    [kind |-> "Function", name |-> name, params |-> params, body |-> body, span |-> span]

StmtClass(name, super_class, methods, span) ==
    [kind |-> "Class", name |-> name, super_class |-> super_class, methods |-> methods,
     span |-> span]

Program(stmt) == [kind |-> "Program", stmt |-> stmt]

(***************************************************************************)
(* Parser state and the token-level helpers                                *)
(***************************************************************************)
\* Parser::new: prev is an Eof placeholder, curr is the first token pulled.
\* idx counts the tokens pulled from the lexer, advances the calls of advance,
\* pushed the statements pushed onto a statement list; raised records the
\* errors raised.
new(toks) ==
    [toks |-> toks,
     idx |-> 1,
     advances |-> 0,
     pushed |-> 0,
     raised |-> <<>>,
     prev |-> TokenInfo(T("Eof"), 0),
     curr |-> IF Len(toks) >= 1 THEN TokenInfo(toks[1], 1)
                                ELSE TokenInfo(T("Eof"), Len(toks) + 1)]

\* advance that pulls a new token into curr and leaves prev as it was
advance_keeps_prev(p) ==
    [p EXCEPT !.curr = IF p.idx < Len(p.toks)
                          THEN TokenInfo(p.toks[p.idx + 1], p.idx + 1)
                          ELSE TokenInfo(T("Eof"), Len(p.toks) + 1),
              !.idx = p.idx + 1,
              !.advances = p.advances + 1]

\* Parser::advance: curr moves into prev, one new token is pulled.
advance(p) ==
    [p EXCEPT !.prev = p.curr,
              !.curr = IF p.idx < Len(p.toks)
                          THEN TokenInfo(p.toks[p.idx + 1], p.idx + 1)
                          ELSE TokenInfo(T("Eof"), Len(p.toks) + 1),
              !.idx = p.idx + 1,
              !.advances = p.advances + 1]

\* Parser::should_be: advances unconditionally, then compares the token it
\* stepped over; the message names the token that is current after the step.
should_be(p, token_type) ==
    LET q == advance(p) IN
    IF q.prev.token = token_type
        THEN Ok(q.prev.span, q)
        ELSE Err(SyntaxError(token_type.tag, q.curr.token, q.prev.span), q)

\* Parser::get_identifier: advances unconditionally, then requires the token
\* it stepped over to be an identifier.
get_identifier(p) ==
    LET q == advance(p) IN
    IF q.prev.token.tag = "Identifier"
        THEN Ok([name |-> q.prev.token.val, span |-> q.prev.span], q)
        ELSE Err(SyntaxError("Identifier", q.prev.token, q.prev.span), q)

\* stmt.push(...) / methods.push(...): one more statement on a statement list
push(p) == [p EXCEPT !.pushed = p.pushed + 1]

(***************************************************************************)
(* The `?` of the source: r is a result, F the rest of the method.  An Err *)
(* is returned as it is, with the parser state it was raised in.           *)
(* One parsing method calls another through self, as in the source.        *)
(***************************************************************************)
Try(r, F(_)) == IF r.ok THEN F(r) ELSE r

\* a result that is inspected instead of propagated: F on Ok, G on Err
OrElse(r, F(_), G(_)) == IF r.ok THEN F(r) ELSE G(r)

(***************************************************************************)
(* Expression grammar                                                      *)
(***************************************************************************)
RECURSIVE self(_, _)
RECURSIVE or_loop(_, _), and_loop(_, _), equality_loop(_, _), comparison_loop(_, _)
RECURSIVE term_loop(_, _), factor_loop(_, _), call_loop(_, _), call_args(_, _)

\* Parser::primary
primary(p) ==
    LET tok == p.curr
        span == p.curr.span
    IN  CASE tok.token = T("True") ->
                Ok(Literal(LiteralType("Boolean", "true"), span), advance(p))
          [] tok.token = T("False") ->
                Ok(Literal(LiteralType("Boolean", "false"), span), advance(p))
          [] tok.token.tag = "Number" ->
                Ok(Literal(LiteralType("Number", tok.token.val), span), advance(p))
          [] tok.token.tag = "String" ->
                Ok(Literal(LiteralType("String", tok.token.val), span), advance(p))
          [] tok.token.tag = "Identifier" ->
                Ok(Variable(tok.token.val, span), advance(p))
          [] tok.token = T("LParen") ->
                Try(self("expression", advance(p)), LAMBDA e :
                Try(should_be(e.p, T("RParen")), LAMBDA r :
                Ok(Grouping(e.val, span), r.p)))
          [] tok.token = T("Super") ->
                Try(should_be(p, T("Dot")), LAMBDA d :
                Try(get_identifier(d.p), LAMBDA n :
                Ok(Super(n.val.name, n.val.span), n.p)))
          [] tok.token = T("This") ->
                Ok(Variable("this", span), p)
          [] OTHER ->
                Err(ParseError("Expect expression.", span), p)

\* the argument loop of Parser::call: expressions separated by Comma
call_args(args, p) ==
    Try(self("expression", p), LAMBDA e :
    IF e.p.curr.token # T("Comma")
        THEN Ok(Append(args, e.val), e.p)
        ELSE call_args(Append(args, e.val), advance(e.p)))

\* the postfix loop of Parser::call; the LParen arm collects args and drops them
call_loop(expr, p) ==
    CASE p.curr.token = T("LParen") ->
            Try(IF advance(p).curr.token # T("RParen")
                    THEN call_args(<<>>, advance(p))
                    ELSE Ok(<<>>, advance(p)),
                LAMBDA a : call_loop(expr, a.p))
      [] p.curr.token = T("Dot") ->
            Try(get_identifier(advance(p)), LAMBDA n :
            call_loop(Get(expr, n.val.name, n.val.span), n.p))
      [] OTHER -> Ok(expr, p)

\* Parser::call
call(p) == Try(self("primary", p), LAMBDA e : call_loop(e.val, e.p))

\* Parser::unary
unary(p) ==
    IF p.curr.token \in {T("Minus"), T("Not"), T("Plus")}
        THEN Try(self("unary", advance(p)), LAMBDA r :
             Ok(Unary(p.curr.token, r.val, p.curr.span), r.p))
        ELSE self("call", p)

\* factor_loop with the right operand parsed one level too low (term for unary)
factor_loop_term_operand(left, p) ==
    IF p.curr.token \in {T("Times"), T("Divide")}
        THEN Try(self("term", advance(p)), LAMBDA r :
             factor_loop(Binary(left, p.curr.token, r.val, p.curr.span), r.p))
        ELSE Ok(left, p)

\* the fold loop of Parser::factor; advance returns the operator it stepped over
factor_loop(left, p) ==
    IF p.curr.token \in {T("Times"), T("Divide")}
        THEN Try(self("unary", advance(p)), LAMBDA r :
             factor_loop(Binary(left, p.curr.token, r.val, p.curr.span), r.p))
        ELSE Ok(left, p)

\* Parser::factor
factor(p) == Try(self("unary", p), LAMBDA l : factor_loop(l.val, l.p))

\* term_loop with the right operand parsed at its own level (term for factor)
term_loop_right_recursive(left, p) ==
    IF p.curr.token \in {T("Plus"), T("Minus"), T("Or"), T("And"), T("Xor")}
        THEN Try(self("term", advance(p)), LAMBDA r :
             term_loop(Binary(left, p.curr.token, r.val, p.curr.span), r.p))
        ELSE Ok(left, p)

\* the fold loop of Parser::term
term_loop(left, p) ==
    IF p.curr.token \in {T("Plus"), T("Minus"), T("Or"), T("And"), T("Xor")}
        THEN Try(self("factor", advance(p)), LAMBDA r :
             term_loop(Binary(left, p.curr.token, r.val, p.curr.span), r.p))
        ELSE Ok(left, p)

\* Parser::term
term(p) == Try(self("factor", p), LAMBDA l : term_loop(l.val, l.p))

\* the fold loop of Parser::comparison
comparison_loop(left, p) ==
    IF p.curr.token \in {T("Gt"), T("Gte"), T("Lt"), T("Lte")}
        THEN Try(self("term", advance(p)), LAMBDA r :
             comparison_loop(Logical(left, p.curr.token, r.val, p.curr.span), r.p))
        ELSE Ok(left, p)

\* Parser::comparison
comparison(p) == Try(self("term", p), LAMBDA l : comparison_loop(l.val, l.p))

\* the fold loop of Parser::equality
equality_loop(left, p) ==
    IF p.curr.token \in {T("Eq"), T("Ne")}
        THEN Try(self("comparison", advance(p)), LAMBDA r :
             equality_loop(Logical(left, p.curr.token, r.val, p.curr.span), r.p))
        ELSE Ok(left, p)

\* Parser::equality
equality(p) == Try(self("comparison", p), LAMBDA l : equality_loop(l.val, l.p))

\* the fold loop of Parser::and
and_loop(left, p) ==
    IF p.curr.token = T("LAnd")
        THEN Try(self("equality", advance(p)), LAMBDA r :
             and_loop(Logical(left, p.curr.token, r.val, p.curr.span), r.p))
        ELSE Ok(left, p)

\* Parser::and
and(p) == Try(self("equality", p), LAMBDA l : and_loop(l.val, l.p))

\* the fold loop of Parser::or
or_loop(left, p) ==
    IF p.curr.token = T("Or")
        THEN Try(self("and", advance(p)), LAMBDA r :
             or_loop(Logical(left, p.curr.token, r.val, p.curr.span), r.p))
        ELSE Ok(left, p)

\* Parser::or
or(p) == Try(self("and", p), LAMBDA l : or_loop(l.val, l.p))

AssignOps ==
    {T("Assign"), T("PlusEq"), T("SubEq"), T("ModEq"), T("DivEq"), T("AndEq"),
     T("OrEq"), T("MulEq"), T("XorEq")}

\* assignment_target with the object of a Get dropped (an Assign to the member name)
assignment_target_drops_object(left, right, span, p) ==
    CASE left.kind \in {"Variable", "Get"} -> Ok(Assign(left.name, right, left.span), p)
      [] OTHER -> Err(ParseError("Invalid assignment target", span), p)

\* the match on the left side in Parser::assignment; span is the operator's
assignment_target(left, right, span, p) ==
    CASE left.kind = "Variable" -> Ok(Assign(left.name, right, left.span), p)
      [] left.kind = "Get" -> Ok(Set(left.object, left.name, right, left.span), p)
      [] OTHER -> Err(ParseError("Invalid assignment target", span), p)

\* assignment with the right side parsed as an assignment again
assignment_right_recursive(p) ==
    Try(self("or", p), LAMBDA l :
    IF l.p.curr.token \in AssignOps
        THEN Try(self("assignment", advance(l.p)), LAMBDA r :
             assignment_target(l.val, r.val, l.p.curr.span, r.p))
        ELSE l)

\* assignment with a compound operator recorded: `x op= e` as x = x op= e
assignment_desugars_compound(p) ==
    Try(self("or", p), LAMBDA l :
    IF l.p.curr.token \in AssignOps
        THEN Try(self("or", advance(l.p)), LAMBDA r :
             assignment_target(l.val,
                               IF l.p.curr.token = T("Assign")
                                   THEN r.val
                                   ELSE Binary(l.val, l.p.curr.token, r.val, l.p.curr.span),
                               l.p.curr.span, r.p))
        ELSE l)

\* Parser::assignment: the right side is parsed before the left side is inspected
assignment(p) ==
    Try(self("or", p), LAMBDA l :
    IF l.p.curr.token \in AssignOps
        THEN Try(self("or", advance(l.p)), LAMBDA r :
             assignment_target(l.val, r.val, l.p.curr.span, r.p))
        ELSE l)

\* Parser::expression
expression(p) == self("assignment", p)

(***************************************************************************)
(* Statement grammar                                                       *)
(***************************************************************************)
RECURSIVE block_loop(_, _), function_params(_, _), class_methods(_, _)

\* Parser::expression_statement
expression_statement(p) ==
    Try(self("expression", p), LAMBDA e :
    Try(should_be(e.p, T("Semicolon")), LAMBDA r :
    Ok(StmtExpr(e.val, p.curr.span), r.p)))

\* Parser::print_statement
print_statement(p) ==
    Try(self("expression", advance(p)), LAMBDA e :
    Try(should_be(e.p, T("Semicolon")), LAMBDA r :
    Ok(StmtPrt(e.val, p.curr.span), r.p)))

\* an optional clause: None (val <<>>) when absent, else Some of what r yields
Optional(absent, r, p) == IF absent THEN Ok(<<>>, p) ELSE Try(r, LAMBDA v : Ok(<<v.val>>, v.p))

\* Parser::return_statement
return_statement(p) ==
    Try(Optional(advance(p).curr.token = T("Semicolon"), self("expression", advance(p)), advance(p)),
        LAMBDA value :
    Try(should_be(value.p, T("Semicolon")), LAMBDA r :
    Ok(StmtReturn(value.val, p.curr.span), r.p)))

\* let_declaration with is_const read after the keyword has been stepped over
let_declaration_const_after_advance(p) ==
    Try(get_identifier(advance(p)), LAMBDA n :
    Try(Optional(n.p.curr.token # T("Assign"), self("expression", advance(n.p)), n.p), LAMBDA value :
    Try(should_be(value.p, T("Semicolon")), LAMBDA r :
    Ok(StmtLet(n.val.name, value.val, advance(p).curr.token = T("Const"), n.val.span), r.p))))

\* Parser::let_declaration
let_declaration(p) ==
    Try(get_identifier(advance(p)), LAMBDA n :
    Try(Optional(n.p.curr.token # T("Assign"), self("expression", advance(n.p)), n.p), LAMBDA value :
    Try(should_be(value.p, T("Semicolon")), LAMBDA r :
    Ok(StmtLet(n.val.name, value.val, p.curr.token = T("Const"), n.val.span), r.p))))

\* the statement loop of Parser::block_statement
block_loop(stmt, p) ==
    IF p.curr.token # T("RCurly") /\ p.curr.token # T("Eof")
        THEN Try(self("declaration", p), LAMBDA d : block_loop(Append(stmt, d.val), push(d.p)))
        ELSE Ok(stmt, p)

\* Parser::block_statement
block_statement(p) ==
    Try(should_be(p, T("LCurly")), LAMBDA o :
    Try(block_loop(<<>>, o.p), LAMBDA b :
    Try(should_be(b.p, T("RCurly")), LAMBDA c :
    Ok(StmtBlock(b.val, o.val), c.p))))

\* the parameter list of Parser::function_declaration: an identifier, then
\* one more after every Comma
function_params(params, p) ==
    Try(get_identifier(p), LAMBDA n :
    IF n.p.curr.token = T("Comma")
        THEN function_params(Append(params, n.val.name), advance(n.p))
        ELSE Ok(Append(params, n.val.name), n.p))

\* function_declaration that takes a lone Semicolon for an empty member and
\* returns without stepping over it
function_declaration_empty_member(p) ==
    IF p.curr.token = T("Semicolon")
        THEN Ok(StmtFunction("", <<>>, StmtBlock(<<>>, p.curr.span), p.curr.span), p)
        ELSE
    Try(get_identifier(p), LAMBDA n :
    Try(should_be(n.p, T("LParen")), LAMBDA o :
    Try(IF o.p.curr.token # T("RParen") THEN function_params(<<>>, o.p) ELSE Ok(<<>>, o.p),
        LAMBDA params :
    Try(should_be(params.p, T("RParen")), LAMBDA c :
    Try(self("block_statement", c.p), LAMBDA body :
    Ok(StmtFunction(n.val.name, params.val, body.val, n.val.span), body.p))))))

\* Parser::function_declaration
function_declaration(p) ==
    Try(get_identifier(p), LAMBDA n :
    Try(should_be(n.p, T("LParen")), LAMBDA o :
    Try(IF o.p.curr.token # T("RParen") THEN function_params(<<>>, o.p) ELSE Ok(<<>>, o.p),
        LAMBDA params :
    Try(should_be(params.p, T("RParen")), LAMBDA c :
    Try(self("block_statement", c.p), LAMBDA body :
    Ok(StmtFunction(n.val.name, params.val, body.val, n.val.span), body.p))))))

\* the method loop of Parser::class_declaration
class_methods(methods, p) ==
    IF p.curr.token # T("RBrace") /\ p.curr.token # T("Eof")
        THEN Try(self("function_declaration", p), LAMBDA m :
             class_methods(Append(methods, m.val), push(m.p)))
        ELSE Ok(methods, p)

\* the superclass clause of Parser::class_declaration
class_super(name, p) ==
    IF p.curr.token = T("Lt")
        THEN Try(get_identifier(advance(p)), LAMBDA s :
             IF name = s.val.name
                 THEN Err(ParseError("Cannot inherit from itself", s.val.span), s.p)
                 ELSE Ok(<<s.val.name>>, s.p))
        ELSE Ok(<<>>, p)

\* Parser::class_declaration: entered with curr still on the Class keyword
class_declaration(p) ==
    Try(get_identifier(p), LAMBDA n :
    Try(class_super(n.val.name, n.p), LAMBDA super_class :
    Try(should_be(super_class.p, T("LBrace")), LAMBDA o :
    Try(class_methods(<<>>, o.p), LAMBDA methods :
    Try(should_be(methods.p, T("RBrace")), LAMBDA c :
    Ok(StmtClass(n.val.name, super_class.val, methods.val, n.val.span), c.p))))))

\* the initializer clause of Parser::for_statement: an absent initializer
\* leaves its Semicolon unconsumed
for_initializer(p) ==
    CASE p.curr.token = T("Semicolon") -> Ok(<<>>, p)
      [] p.curr.token = T("Let") -> Try(self("let_declaration", p), LAMBDA s : Ok(<<s.val>>, s.p))
      [] OTHER -> Try(self("expression_statement", p), LAMBDA s : Ok(<<s.val>>, s.p))

\* Parser::for_statement
for_statement(p) ==
    Try(should_be(advance(p), T("LParen")), LAMBDA o :
    Try(for_initializer(o.p), LAMBDA initializer :
    Try(Optional(initializer.p.curr.token = T("Semicolon"), self("expression", initializer.p),
                 initializer.p), LAMBDA condition :
    Try(should_be(condition.p, T("Semicolon")), LAMBDA s :
    Try(Optional(s.p.curr.token = T("RParen"), self("expression", s.p), s.p), LAMBDA increment :
    Try(should_be(increment.p, T("RParen")), LAMBDA r :
    Try(self("statement", r.p), LAMBDA body :
    Ok(StmtFor(initializer.val, condition.val, increment.val, body.val, p.curr.span),
       body.p))))))))

\* if_else with the Else keyword left in place before the else-branch
if_else_keeps_keyword(p) ==
    IF p.curr.token = T("Else")
        THEN Try(self("statement", p), LAMBDA s : Ok(<<s.val>>, s.p))
        ELSE Ok(<<>>, p)

\* the else clause of Parser::if_statement
if_else(p) ==
    IF p.curr.token = T("Else")
        THEN Try(self("statement", advance(p)), LAMBDA s : Ok(<<s.val>>, s.p))
        ELSE Ok(<<>>, p)

\* Parser::if_statement
if_statement(p) ==
    Try(should_be(advance(p), T("LParen")), LAMBDA o :
    Try(self("expression", o.p), LAMBDA condition :
    Try(should_be(condition.p, T("RParen")), LAMBDA r :
    Try(self("statement", r.p), LAMBDA truthy :
    Try(if_else(truthy.p), LAMBDA falsy :
    Ok(StmtIf(condition.val, truthy.val, falsy.val, p.curr.span), falsy.p))))))

\* Parser::while_statement
while_statement(p) ==
    Try(should_be(advance(p), T("LParen")), LAMBDA o :
    Try(self("expression", o.p), LAMBDA condition :
    Try(should_be(condition.p, T("RParen")), LAMBDA r :
    Try(self("statement", r.p), LAMBDA body :
    Ok(StmtWhile(condition.val, body.val, p.curr.span), body.p)))))

\* Parser::statement
statement(p) ==
    CASE p.curr.token = T("Print") -> self("print_statement", p)
      [] p.curr.token = T("If") -> self("if_statement", p)
      [] p.curr.token = T("While") -> self("while_statement", p)
      [] p.curr.token = T("For") -> self("for_statement", p)
      [] p.curr.token = T("Return") -> self("return_statement", p)
      [] p.curr.token = T("LCurly") -> self("block_statement", p)
      [] OTHER -> self("expression_statement", p)

\* Parser::declaration: only the Function arm steps over its keyword
declaration(p) ==
    CASE p.curr.token \in {T("Let"), T("Const")} -> self("let_declaration", p)
      [] p.curr.token = T("Class") -> self("class_declaration", p)
      [] p.curr.token = T("Function") -> self("function_declaration", advance(p))
      [] OTHER -> self("statement", p)

\* self.method(): the call of one parsing method by another
self(method, p) ==
    CASE method = "expression" -> expression(p)
      [] method = "assignment" -> assignment(p)
      [] method = "or" -> or(p)
      [] method = "and" -> and(p)
      [] method = "equality" -> equality(p)
      [] method = "comparison" -> comparison(p)
      [] method = "term" -> term(p)
      [] method = "factor" -> factor(p)
      [] method = "unary" -> unary(p)
      [] method = "call" -> call(p)
      [] method = "primary" -> primary(p)
      [] method = "expression_statement" -> expression_statement(p)
      [] method = "print_statement" -> print_statement(p)
      [] method = "return_statement" -> return_statement(p)
      [] method = "let_declaration" -> let_declaration(p)
      [] method = "block_statement" -> block_statement(p)
      [] method = "function_declaration" -> function_declaration(p)
      [] method = "class_declaration" -> class_declaration(p)
      [] method = "for_statement" -> for_statement(p)
      [] method = "if_statement" -> if_statement(p)
      [] method = "while_statement" -> while_statement(p)
      [] method = "statement" -> statement(p)
      [] method = "declaration" -> declaration(p)

RECURSIVE program_loop(_, _)

\* program_loop that parses the first declaration only
program_loop_first_only(stmt, p) ==
    IF p.curr.token # T("Eof") /\ stmt = <<>>
        THEN Try(self("declaration", p), LAMBDA d : program_loop(Append(stmt, d.val), push(d.p)))
        ELSE Ok(stmt, p)

\* program_loop that drops the error of a declaration, steps over one token
\* and goes on with the next declaration
program_loop_resumes_after_error(stmt, p) ==
    IF p.curr.token # T("Eof")
        THEN OrElse(self("declaration", p),
                    LAMBDA d : program_loop(Append(stmt, d.val), push(d.p)),
                    LAMBDA d : program_loop(stmt, advance(d.p)))
        ELSE Ok(stmt, p)

\* the statement loop of Parser::parse_program
program_loop(stmt, p) ==
    IF p.curr.token # T("Eof")
        THEN Try(self("declaration", p), LAMBDA d : program_loop(Append(stmt, d.val), push(d.p)))
        ELSE Ok(stmt, p)

\* Parser::parse_program
parse_program(p) == Try(program_loop(<<>>, p), LAMBDA s : Ok(Program(s.val), s.p))

(***************************************************************************)
(* Token streams the parser is run on                                      *)
(***************************************************************************)
MaxChain == 2

MaxArgs == 2

MaxMethods == 1

Semicolon == T("Semicolon")

LParen == T("LParen")

RParen == T("RParen")

Dot == T("Dot")

\* operators of the binary and logical levels, by the method that folds them
OrOps == {T("Or")}

AndOps == {T("LAnd")}

EqualityOps == {T("Eq"), T("Ne")}

ComparisonOps == {T("Gt"), T("Gte"), T("Lt"), T("Lte")}

TermOps == {T("Plus"), T("Minus"), T("Or"), T("And"), T("Xor")}

FactorOps == {T("Times"), T("Divide")}

UnaryOps == {T("Minus"), T("Not"), T("Plus")}

BinOps == OrOps \cup AndOps \cup EqualityOps \cup ComparisonOps \cup TermOps \cup FactorOps

OperandNames == <<"a", "b", "c", "d", "e">>

Operand(i) == Identifier(OperandNames[i])

\* x1 op1 x2 op2 ... xk+1 ;
Chain(ops) ==
    [i \in 1..(2 * Len(ops) + 1) |->
        IF i % 2 = 1 THEN Operand((i + 1) \div 2) ELSE ops[i \div 2]] \o <<Semicolon>>

ChainInputs == UNION {{Chain(ops) : ops \in [1..k -> BinOps]} : k \in 0..MaxChain}

\* u a op b ;   a op u b ;   u a . m ;   u u a ;   a . m op b ;   a op b . m ;
UnaryInputs ==
    {<<u, Operand(1), op, Operand(2), Semicolon>> : u \in UnaryOps, op \in BinOps}
    \cup {<<Operand(1), op, u, Operand(2), Semicolon>> : u \in UnaryOps, op \in BinOps}
    \cup {<<u, Operand(1), Dot, Identifier("m"), Semicolon>> : u \in UnaryOps}
    \cup {<<u, v, Operand(1), Semicolon>> : u \in UnaryOps, v \in UnaryOps}
    \cup {<<Operand(1), Dot, Identifier("m"), op, Operand(2), Semicolon>> : op \in BinOps}
    \cup {<<Operand(1), op, Operand(2), Dot, Identifier("m"), Semicolon>> : op \in BinOps}

\* -(1 / (2 * 32));
NegativeUnaryInput ==
    <<T("Minus"), LParen, Number("1"), T("Divide"), LParen, Number("2"), T("Times"),
      Number("32"), RParen, RParen, Semicolon>>

\* ( a op1 b ) op2 c ;   a op1 ( b op2 c ) ;
GroupingInputs ==
    {<<LParen, Operand(1), op1, Operand(2), RParen, op2, Operand(3), Semicolon>> :
        op1 \in BinOps, op2 \in BinOps}
    \cup {<<Operand(1), op1, LParen, Operand(2), op2, Operand(3), RParen, Semicolon>> :
        op1 \in BinOps, op2 \in BinOps}
    \cup {NegativeUnaryInput}

\* a1 , a2 , ... , an
RECURSIVE ArgList(_)
ArgList(n) ==
    IF n = 0 THEN <<>>
    ELSE IF n = 1 THEN <<Operand(1)>>
    ELSE ArgList(n - 1) \o <<T("Comma"), Operand(n)>>

\* f ( args ) ;
CallStmt(n) == <<Identifier("f"), LParen>> \o ArgList(n) \o <<RParen, Semicolon>>

CallInputs ==
    {CallStmt(n) : n \in 0..MaxArgs}
    \cup {<<Identifier("f"), LParen>> \o ArgList(n) \o <<RParen, Dot, Identifier("m"), Semicolon>> :
            n \in 0..MaxArgs}
    \cup {<<Identifier("f"), LParen>> \o ArgList(n) \o <<Semicolon>> : n \in 1..MaxArgs}
    \cup {<<Identifier("o"), Dot, Identifier("f"), LParen>> \o ArgList(n) \o <<RParen, Semicolon>> :
            n \in 0..MaxArgs}
    \cup {<<T("Print"), Identifier("f"), LParen>> \o ArgList(n) \o <<RParen, Semicolon>> :
            n \in 0..MaxArgs}

\* L op R ;
NonTargets ==
    {<<Number("1")>>, <<String("s")>>, <<T("True")>>, <<T("False")>>,
     <<LParen, Identifier("a"), RParen>>,
     <<T("Minus"), Identifier("a")>>,
     <<Identifier("a"), T("Plus"), Identifier("b")>>,
     <<Identifier("a"), T("Eq"), Identifier("b")>>,
     <<Identifier("a"), T("LAnd"), Identifier("b")>>}

CallTargets ==
    {<<Identifier("f"), LParen, RParen>>,
     <<Identifier("f"), LParen, Identifier("a"), RParen>>,
     <<Identifier("o"), Dot, Identifier("f"), LParen, RParen>>}

Targets ==
    {<<Identifier("a")>>, <<Identifier("a"), Dot, Identifier("b")>>,
     <<Identifier("a"), Dot, Identifier("b"), Dot, Identifier("c")>>}

RightSides ==
    {<<Identifier("b")>>, <<Number("1")>>,
     <<Identifier("b"), T("Plus"), Identifier("c")>>,
     <<Identifier("b"), T("LAnd"), Identifier("c")>>,
     <<LParen, Identifier("b"), RParen>>}

AssignStmt(l, op, r) == l \o <<op>> \o r \o <<Semicolon>>

AssignInputs ==
    {AssignStmt(l, op, r) :
        l \in NonTargets \cup CallTargets \cup Targets, op \in AssignOps, r \in RightSides}

\* a op1 b op2 c ;   a op1 ( b op2 c ) ;
ChainedAssign(op1, op2) ==
    <<Identifier("a"), op1, Identifier("b"), op2, Identifier("c"), Semicolon>>

GroupedAssign(op1, op2) ==
    <<Identifier("a"), op1, LParen, Identifier("b"), op2, Identifier("c"), RParen, Semicolon>>

ChainedAssignInputs ==
    {ChainedAssign(op1, op2) : op1 \in AssignOps, op2 \in AssignOps}
    \cup {GroupedAssign(op1, op2) : op1 \in AssignOps, op2 \in AssignOps}

\* class N [< S] open methods close, each method being  name ( ) { }
ClassNames == {"A", "B"}

MethodNames == <<"m", "n", "k">>

Method(i) == <<Identifier(MethodNames[i]), LParen, RParen, T("LCurly"), T("RCurly")>>

RECURSIVE Methods(_)
Methods(n) == IF n = 0 THEN <<>> ELSE Methods(n - 1) \o Method(n)

\* the two bracket pairs the token set has for a body
BodyBrackets == {<<T("LBrace"), T("RBrace")>>, <<T("LCurly"), T("RCurly")>>}

SuperClause(s) == IF s = "" THEN <<>> ELSE <<T("Lt"), Identifier(s)>>

ClassDecl(name, s, br, n) ==
    <<T("Class"), Identifier(name)>> \o SuperClause(s) \o <<br[1]>> \o Methods(n) \o <<br[2]>>

ClassInputs ==
    {ClassDecl(name, s, br, n) :
        name \in ClassNames, s \in ClassNames \cup {""}, br \in BodyBrackets, n \in 0..MaxMethods}

\* for ( init cond ; incr ) body, where a written init ends with its own Semicolon
AbsentInit == <<Semicolon>>

LetInits ==
    {<<T("Let"), Identifier("i"), T("Assign"), Number("0"), Semicolon>>,
     <<T("Let"), Identifier("i"), Semicolon>>}

ExprInits ==
    {<<Identifier("i"), T("Assign"), Number("0"), Semicolon>>,
     <<Identifier("i"), Semicolon>>}

ForInits == {AbsentInit} \cup LetInits \cup ExprInits

ForConds == {<<>>, <<Identifier("c")>>, <<Identifier("i"), T("Lt"), Identifier("n")>>}

ForIncrs ==
    {<<>>, <<Identifier("i")>>,
     <<Identifier("i"), T("Assign"), Identifier("i"), T("Plus"), Number("1")>>}

ForBodies ==
    {<<Identifier("x"), Semicolon>>, <<T("LCurly"), T("RCurly")>>,
     <<T("Print"), Identifier("x"), Semicolon>>}

ForStmt(init, cond, incr, body) ==
    <<T("For"), LParen>> \o init \o cond \o <<Semicolon>> \o incr \o <<RParen>> \o body

\* for ( ; incr ) body, with a single Semicolon
ForOneSemicolon(incr, body) ==
    <<T("For"), LParen, Semicolon>> \o incr \o <<RParen>> \o body

ForInputs ==
    {ForStmt(init, cond, incr, body) :
        init \in ForInits, cond \in ForConds, incr \in ForIncrs, body \in ForBodies}
    \cup {ForOneSemicolon(incr, body) : incr \in ForIncrs, body \in ForBodies}

\* this and super in primary position
ThisInputs ==
    {<<T("Print"), T("This"), Semicolon>>,
     <<T("This"), Dot, Identifier("x"), Semicolon>>,
     <<T("This"), Semicolon>>,
     <<T("Return"), T("This"), Semicolon>>,
     <<LParen, T("This"), RParen, Semicolon>>}

SuperInputs ==
    {<<T("Super"), Dot, Identifier(m), Semicolon>> : m \in {"m", "n"}}
    \cup {<<T("Print"), T("Super"), Dot, Identifier("m"), Semicolon>>,
          <<T("Super"), Dot, Identifier("m"), Dot, Identifier("x"), Semicolon>>,
          <<T("Super"), Semicolon>>,
          <<T("Super"), T("Super"), Dot, Identifier("m"), Semicolon>>}

\* let|const name [= expr] ;  alone or followed by  print name ;
LetKeywords == {T("Let"), T("Const")}

LetNames == {"a", "x"}

InitExprs ==
    {<<>>, <<Number("1")>>, <<Identifier("b")>>, <<String("s")>>,
     <<Identifier("b"), T("Plus"), Identifier("c")>>,
     <<Identifier("b"), T("Eq"), Number("1")>>,
     <<T("Minus"), Identifier("b")>>,
     <<LParen, Identifier("b"), RParen>>,
     <<Identifier("b"), Dot, Identifier("c")>>}

LetDecl(kw, name, e) ==
    <<kw, Identifier(name)>> \o (IF e = <<>> THEN <<>> ELSE <<T("Assign")>> \o e)
    \o <<Semicolon>>

LetInputs ==
    {LetDecl(kw, name, e) : kw \in LetKeywords, name \in LetNames, e \in InitExprs}
    \cup {LetDecl(kw, name, e) \o <<T("Print"), Identifier(name), Semicolon>> :
            kw \in LetKeywords, name \in LetNames, e \in InitExprs}

\* if ( cond ) S1 [else S2], a branch being one statement or a { } block
MaxBlock == 2

SimpleStmts ==
    {<<T("Print"), Identifier("a"), Semicolon>>,
     <<Identifier("x"), Semicolon>>}

\* the concatenation of a sequence of token sequences
RECURSIVE Concat(_)
Concat(ss) == IF ss = <<>> THEN <<>> ELSE Head(ss) \o Concat(Tail(ss))

Branches ==
    {[block |-> FALSE, stmts |-> <<st>>] : st \in SimpleStmts}
    \cup UNION {{[block |-> TRUE, stmts |-> ss] : ss \in [1..n -> SimpleStmts]} : n \in 0..MaxBlock}

BranchTokens(b) ==
    IF b.block THEN <<T("LCurly")>> \o Concat(b.stmts) \o <<T("RCurly")>> ELSE b.stmts[1]

IfConds ==
    {<<Identifier("a"), T("Eq"), Number("1")>>, <<Identifier("a")>>,
     <<Identifier("a"), T("Lt"), Identifier("b")>>}

IfHead(cond) == <<T("If"), LParen>> \o cond \o <<RParen>>

IfStmt(cond, b1) == IfHead(cond) \o BranchTokens(b1)

IfElseStmt(cond, b1, b2) == IfStmt(cond, b1) \o <<T("Else")>> \o BranchTokens(b2)

\* if ( a ) if ( b ) x ; else y ;
NestedIfInput ==
    IfHead(<<Identifier("a")>>) \o IfHead(<<Identifier("b")>>)
    \o <<Identifier("x"), Semicolon, T("Else"), Identifier("y"), Semicolon>>

IfInputs ==
    {IfStmt(cond, b1) : cond \in IfConds, b1 \in Branches}
    \cup {IfElseStmt(cond, b1, b2) : cond \in IfConds, b1 \in Branches, b2 \in Branches}
    \cup {NestedIfInput}

\* programs of 0..MaxStmts top-level declarations, each of a known kind
MaxStmts == 2

TopDecls ==
    {[kind |-> "Let", tokens |-> <<T("Let"), Identifier("a"), T("Assign"), Number("1"), Semicolon>>],
     [kind |-> "Let", tokens |-> <<T("Const"), Identifier("k"), Semicolon>>],
     [kind |-> "Print", tokens |-> <<T("Print"), Identifier("a"), Semicolon>>],
     [kind |-> "Expr", tokens |-> <<Identifier("x"), Semicolon>>],
     [kind |-> "Block", tokens |-> <<T("LCurly"), Identifier("x"), Semicolon, T("RCurly")>>],
     [kind |-> "Function",
      tokens |-> <<T("Function"), Identifier("f"), LParen, Identifier("a"), T("Comma"),
                   Identifier("b"), RParen, T("LCurly"), T("RCurly")>>],
     [kind |-> "If", tokens |-> <<T("If"), LParen, Identifier("a"), RParen, Identifier("x"), Semicolon>>],
     [kind |-> "While",
      tokens |-> <<T("While"), LParen, Identifier("a"), RParen, T("LCurly"), T("RCurly")>>],
     [kind |-> "Return", tokens |-> <<T("Return"), Semicolon>>]}

DeclLists == UNION {[1..n -> TopDecls] : n \in 0..MaxStmts}

\* the tokens of the first n declarations of ds
RECURSIVE ProgramTokens(_, _)
ProgramTokens(ds, n) == IF n = 0 THEN <<>> ELSE ProgramTokens(ds, n - 1) \o ds[n].tokens

ProgramInputs == {ProgramTokens(ds, Len(ds)) : ds \in DeclLists}

\* the inputs of the unit tests of the parser
TestAssignmentInput ==
    <<T("Let"), Identifier("a"), T("Assign"), Number("1"), Semicolon,
      T("Print"), Identifier("a"), Semicolon>>

TestIfInput ==
    <<T("If"), LParen, Identifier("a"), T("Eq"), Number("1"), RParen,
      T("LCurly"), T("Print"), Identifier("a"), Semicolon, T("RCurly"),
      T("Else"),
      T("LCurly"), T("Print"), Identifier("b"), Semicolon, T("RCurly")>>

TestInputs == {NegativeUnaryInput, TestAssignmentInput, TestIfInput}

\* malformed streams: a well-formed stream with one token left out, and a
\* well-formed stream cut short (unterminated statements and blocks)
BlockIfInput ==
    IfElseStmt(<<Identifier("a"), T("Eq"), Number("1")>>,
               [block |-> TRUE,
                stmts |-> <<<<T("Print"), Identifier("a"), Semicolon>>,
                            <<Identifier("x"), Semicolon>>>>],
               [block |-> FALSE, stmts |-> <<<<T("Print"), Identifier("a"), Semicolon>>>>])

WellFormed ==
    {d.tokens : d \in TopDecls} \cup TestInputs \cup {NestedIfInput, BlockIfInput}

Drop(s, i) == SubSeq(s, 1, i - 1) \o SubSeq(s, i + 1, Len(s))

DroppedInputs == UNION {{Drop(s, i) : i \in 1..Len(s)} : s \in WellFormed}

CutInputs == UNION {{SubSeq(s, 1, i) : i \in 1..Len(s)} : s \in WellFormed}

BrokenInputs == DroppedInputs \cup CutInputs

Inputs ==
    ChainInputs \cup UnaryInputs \cup GroupingInputs \cup CallInputs \cup AssignInputs
    \cup ClassInputs \cup ForInputs \cup ThisInputs \cup SuperInputs \cup TestInputs
    \cup LetInputs \cup IfInputs \cup ProgramInputs \cup BrokenInputs
    \cup ChainedAssignInputs

(***************************************************************************)
(* The state machine                                                       *)
(***************************************************************************)
NoResult == [ok |-> FALSE, val |-> NoVal, err |-> NoErr]

\* Parser::new(lexer) over one of the token streams
Init ==
    /\ input \in Inputs
    /\ parser = new(input)
    /\ result = NoResult
    /\ pc = "ready"

\* one call of Parser::parse_program
ParseProgram ==
    /\ pc = "ready"
    /\ LET r == parse_program(parser) IN
        /\ result' = [ok |-> r.ok, val |-> r.val, err |-> r.err]
        /\ parser' = r.p
    /\ pc' = "done"
    /\ UNCHANGED input

Next == ParseProgram

Spec == Init /\ [][Next]_vars

\* parse_program has no point at which it waits: a call, once made, runs
\* until it returns.  ParseProgram is the only step from "ready" to "done"
\* and is enabled exactly when pc = "ready".
Returns == pc = "ready" /\ pc' = "done"

LiveSpec == Spec /\ WF_pc(Returns)

Done == pc = "done"

(***************************************************************************)
(* Token precedence (token/precedence.rs), applied to pairs of tokens      *)
(***************************************************************************)
\* enum Precedence, in declaration order; repr(u8) numbers the variants from 0
Precedence == <<"Lowest", "Lower", "Low", "Mid", "High", "Higher", "Highest">>

\* the discriminant of a variant
Discriminant(prec) == (CHOOSE i \in 1..Len(Precedence) : Precedence[i] = prec) - 1

\* derived PartialEq and PartialOrd of a fieldless enum: by variant, by discriminant
PrecedenceEq(a, b) == a = b

PrecedenceLt(a, b) == Discriminant(a) < Discriminant(b)

\* get_precedence with LParen given the precedence of LBrace
get_precedence_lparen_as_index(token) ==
    CASE token = T("Eq") -> "Lower"
      [] token = T("Ne") -> "Lower"
      [] token = T("Lt") -> "Low"
      [] token = T("Gt") -> "Low"
      [] token = T("Plus") -> "Mid"
      [] token = T("Minus") -> "Mid"
      [] token = T("Not") -> "Mid"
      [] token = T("Times") -> "High"
      [] token = T("Divide") -> "High"
      [] token = T("LParen") -> "Highest"
      [] token = T("LBrace") -> "Highest"
      [] OTHER -> "Lowest"

\* Token::get_precedence
get_precedence(token) ==
    CASE token = T("Eq") -> "Lower"
      [] token = T("Ne") -> "Lower"
      [] token = T("Lt") -> "Low"
      [] token = T("Gt") -> "Low"
      [] token = T("Plus") -> "Mid"
      [] token = T("Minus") -> "Mid"
      [] token = T("Not") -> "Mid"
      [] token = T("Times") -> "High"
      [] token = T("Divide") -> "High"
      [] token = T("LParen") -> "Higher"
      [] token = T("LBrace") -> "Highest"
      [] OTHER -> "Lowest"

\* the tokens get_precedence is applied to: those it names and others
PrecedenceTokens ==
    {T(tag) : tag \in {"Eq", "Ne", "Lt", "Gt", "Plus", "Minus", "Not", "Times", "Divide",
                        "LParen", "LBrace", "Mod", "LShift", "RShift", "Gte", "Lte",
                        "Assign", "LAnd", "Or", "And", "Xor", "RParen", "RBrace", "Dot",
                        "Comma", "Semicolon", "Eof"}}

\* a pair of tokens, as a stream of two
PrecInit ==
    /\ input \in {<<a, b>> : a \in PrecedenceTokens, b \in PrecedenceTokens}
    /\ parser = new(input)
    /\ result = NoResult
    /\ pc = "ready"

\* x.0.get_precedence() and x.1.get_precedence(), compared with == and <
GetPrecedence ==
    /\ pc = "ready"
    /\ LET a == get_precedence(input[1])
           b == get_precedence(input[2])
       IN  result' = [ok |-> TRUE,
                      val |-> [kind |-> "Precedence", left |-> a, right |-> b,
                               eq |-> PrecedenceEq(a, b), lt |-> PrecedenceLt(a, b)],
                      err |-> NoErr]
    /\ pc' = "compared"
    /\ UNCHANGED <<input, parser>>

PrecNext == GetPrecedence

PrecSpec == PrecInit /\ [][PrecNext]_vars

(***************************************************************************)
(* Reading the outcome                                                     *)
(***************************************************************************)
\* the expression e with every span set to 0, to compare trees by structure
RECURSIVE Strip(_)
Strip(e) ==
    CASE e.kind \in {"Literal", "Variable", "Super"} -> [e EXCEPT !.span = 0]
      [] e.kind = "Grouping" -> Grouping(Strip(e.expr), 0)
      [] e.kind = "Get" -> Get(Strip(e.object), e.name, 0)
      [] e.kind = "Unary" -> Unary(e.op, Strip(e.right), 0)
      [] e.kind = "Binary" -> Binary(Strip(e.left), e.op, Strip(e.right), 0)
      [] e.kind = "Logical" -> Logical(Strip(e.left), e.op, Strip(e.right), 0)
      [] e.kind = "Assign" -> Assign(e.name, Strip(e.value), 0)
      [] e.kind = "Set" -> Set(Strip(e.object), e.name, Strip(e.value), 0)
      [] e.kind = "Call" ->
            Call(Strip(e.callee), e.paren, [i \in 1..Len(e.args) |-> Strip(e.args[i])], 0)
      [] OTHER -> e

Var(name) == Variable(name, 0)

\* parse_program returned Ok with a program of exactly one statement of this kind
OneStmt(kind) ==
    /\ Done
    /\ result.ok
    /\ Len(result.val.stmt) = 1
    /\ result.val.stmt[1].kind = kind

TheStmt == result.val.stmt[1]

(***************************************************************************)
(* C1: `f(a1, ..., an);` and `o.f(a1, ..., an);` parse to a one-statement  *)
(* program whose expression is a Call node with the previous running       *)
(* expression as callee and the arguments in source order.                 *)
(***************************************************************************)
ArgsInOrder(args, n) ==
    /\ Len(args) = n
    /\ \A i \in 1..n : Strip(args[i]) = Var(OperandNames[i])

C1_CallNodeBuilt ==
    \A n \in 0..MaxArgs :
        /\ (Done /\ input = CallStmt(n)) =>
                /\ OneStmt("Expr")
                /\ TheStmt.expr.kind = "Call"
                /\ Strip(TheStmt.expr.callee) = Var("f")
                /\ ArgsInOrder(TheStmt.expr.args, n)
        /\ (Done /\ input = <<Identifier("o"), Dot>> \o CallStmt(n)) =>
                /\ OneStmt("Expr")
                /\ TheStmt.expr.kind = "Call"
                /\ Strip(TheStmt.expr.callee) = Get(Var("o"), "f", 0)
                /\ ArgsInOrder(TheStmt.expr.args, n)

(***************************************************************************)
(* C2: `class Name [< Other] { method }` with Other different from Name    *)
(* parses to a single Class statement with that name, super_class          *)
(* Some(Other) (None without the clause) and exactly one method.           *)
(***************************************************************************)
ClassBody == <<T("LBrace"), T("RBrace")>>

C2_ClassWithSuperclass ==
    \A name \in ClassNames, s \in ClassNames \cup {""} :
        (Done /\ s # name /\ input = ClassDecl(name, s, ClassBody, 1)) =>
            /\ OneStmt("Class")
            /\ TheStmt.name = name
            /\ TheStmt.super_class = (IF s = "" THEN <<>> ELSE <<s>>)
            /\ Len(TheStmt.methods) = 1

(***************************************************************************)
(* C3: `class A < A ...` fails with the error "Cannot inherit from itself" *)
(* whose span is the span of the superclass identifier (the 4th token).    *)
(***************************************************************************)
C3_SelfInheritanceError ==
    \A name \in ClassNames, br \in BodyBrackets, n \in 0..MaxMethods :
        (Done /\ input = ClassDecl(name, name, br, n)) =>
            /\ ~result.ok
            /\ result.err = ParseError("Cannot inherit from itself", 4)

(***************************************************************************)
(* C4: `L op R;` with op an assignment-family operator and L neither a     *)
(* Variable nor a Get (a literal, a grouping, a unary or binary            *)
(* expression, a call result) fails with "Invalid assignment target" at    *)
(* the span of op.                                                         *)
(***************************************************************************)
InvalidTargetAt(l) ==
    /\ ~result.ok
    /\ result.err = ParseError("Invalid assignment target", Len(l) + 1)

C4_InvalidAssignmentTarget ==
    \A l \in NonTargets \cup CallTargets, op \in AssignOps, r \in RightSides :
        (Done /\ input = AssignStmt(l, op, r)) => InvalidTargetAt(l)

\* the part of C4 the code satisfies: every left side that is not a call
C4_NonCallTargetsRejected ==
    \A l \in NonTargets, op \in AssignOps, r \in RightSides :
        (Done /\ input = AssignStmt(l, op, r)) => InvalidTargetAt(l)

(***************************************************************************)
(* C5: and < equality < comparison < term + - < factor * / < unary prefix   *)
(* < postfix: in every parsed expression no operator of a lower level is a *)
(* direct child of an operator of a higher level, whatever the textual     *)
(* order of the operators; only a Grouping puts a lower level under a      *)
(* higher one.  The tree read in order gives back the token stream, so it  *)
(* is the tree of that input.                                              *)
(***************************************************************************)
\* the level of the operator of a node, 0 for an operator the ordering does not name
Level(e) ==
    CASE e.kind \in {"Binary", "Logical"} ->
            (CASE e.op \in AndOps -> 1
               [] e.op \in EqualityOps -> 2
               [] e.op \in ComparisonOps -> 3
               [] e.op \in {T("Plus"), T("Minus")} -> 4
               [] e.op \in FactorOps -> 5
               [] OTHER -> 0)
      [] e.kind = "Unary" -> 6
      [] e.kind = "Get" -> 7
      [] OTHER -> 8

\* child may stand directly under parent
Under(parent, child) ==
    Level(parent) = 0 \/ Level(child) = 0 \/ Level(child) >= Level(parent)

RECURSIVE Nested(_)
Nested(e) ==
    CASE e.kind \in {"Binary", "Logical"} ->
            /\ Under(e, e.left) /\ Under(e, e.right)
            /\ Nested(e.left) /\ Nested(e.right)
      [] e.kind = "Unary" -> Under(e, e.right) /\ Nested(e.right)
      [] e.kind = "Get" -> Under(e, e.object) /\ Nested(e.object)
      [] e.kind = "Grouping" -> Nested(e.expr)
      [] OTHER -> TRUE

\* the tokens of an expression tree, read in order
RECURSIVE Yield(_)
Yield(e) ==
    CASE e.kind = "Literal" ->
            (CASE e.value.type = "Number" -> <<Number(e.value.v)>>
               [] e.value.type = "String" -> <<String(e.value.v)>>
               [] e.value.v = "true" -> <<T("True")>>
               [] OTHER -> <<T("False")>>)
      [] e.kind = "Variable" -> <<Identifier(e.name)>>
      [] e.kind = "Grouping" -> <<LParen>> \o Yield(e.expr) \o <<RParen>>
      [] e.kind = "Get" -> Yield(e.object) \o <<Dot, Identifier(e.name)>>
      [] e.kind = "Unary" -> <<e.op>> \o Yield(e.right)
      [] e.kind \in {"Binary", "Logical"} -> Yield(e.left) \o <<e.op>> \o Yield(e.right)
      [] OTHER -> <<>>

OperatorInputs == ChainInputs \cup UnaryInputs \cup GroupingInputs

\* a op b, as the node the level of op builds
Node(l, op, r) ==
    IF op \in TermOps \cup FactorOps THEN Binary(l, op, r, 0) ELSE Logical(l, op, r, 0)

C5_HigherLevelBindsTighter ==
    /\ (Done /\ input \in OperatorInputs) =>
            /\ OneStmt("Expr")
            /\ Yield(TheStmt.expr) \o <<Semicolon>> = input
            /\ Nested(TheStmt.expr)
    \* a + b * c  and  a * b + c
    /\ (Done /\ input = Chain(<<T("Plus"), T("Times")>>)) =>
            Strip(TheStmt.expr) =
                Node(Var("a"), T("Plus"), Node(Var("b"), T("Times"), Var("c")))
    /\ (Done /\ input = Chain(<<T("Times"), T("Plus")>>)) =>
            Strip(TheStmt.expr) =
                Node(Node(Var("a"), T("Times"), Var("b")), T("Plus"), Var("c"))
    \* a == b < c
    /\ (Done /\ input = Chain(<<T("Eq"), T("Lt")>>)) =>
            Strip(TheStmt.expr) =
                Node(Var("a"), T("Eq"), Node(Var("b"), T("Lt"), Var("c")))
    \* -a * b
    /\ (Done /\ input = <<T("Minus"), Operand(1), T("Times"), Operand(2), Semicolon>>) =>
            Strip(TheStmt.expr) =
                Node(Unary(T("Minus"), Var("a"), 0), T("Times"), Var("b"))
    \* -(1 / (2 * 32))
    /\ (Done /\ input = NegativeUnaryInput) =>
            Strip(TheStmt.expr) =
                Unary(T("Minus"),
                      Grouping(Node(Literal(LiteralType("Number", "1"), 0), T("Divide"),
                                    Grouping(Node(Literal(LiteralType("Number", "2"), 0),
                                                  T("Times"),
                                                  Literal(LiteralType("Number", "32"), 0)),
                                             0)),
                               0),
                      0)

\* b + c is parsed under a * ... only through a Grouping:  a * ( b + c ) ;
C5_Witness ==
    /\ OneStmt("Expr")
    /\ input = <<Operand(1), T("Times"), LParen, Operand(2), T("Plus"), Operand(3), RParen,
                 Semicolon>>
    /\ Strip(TheStmt.expr) =
            Node(Var("a"), T("Times"), Grouping(Node(Var("b"), T("Plus"), Var("c")), 0))

(***************************************************************************)
(* C6: a chain x1 op1 x2 op2 ... of operators of one level (or, and,       *)
(* equality, comparison, term, factor) folds to the left: the root is the  *)
(* node of the last operator, its right child the last operand and its     *)
(* left child the chain before it.                                         *)
(***************************************************************************)
LevelOps == {OrOps, AndOps, EqualityOps, ComparisonOps, TermOps, FactorOps}

RECURSIVE IsLeftChain(_, _, _)
IsLeftChain(e, ops, k) ==
    IF k = 0
        THEN Strip(e) = Var(OperandNames[1])
        ELSE /\ e.kind \in {"Binary", "Logical"}
             /\ e.op = ops[k]
             /\ Strip(e.right) = Var(OperandNames[k + 1])
             /\ IsLeftChain(e.left, ops, k - 1)

C6_LeftAssociative ==
    \A S \in LevelOps : \A k \in 2..MaxChain : \A ops \in [1..k -> S] :
        (Done /\ input = Chain(ops)) =>
            /\ OneStmt("Expr")
            /\ IsLeftChain(TheStmt.expr, ops, k)

\* a - b - c ;  is  (a - b) - c
C6_Witness ==
    /\ OneStmt("Expr")
    /\ input = Chain(<<T("Minus"), T("Minus")>>)
    /\ Strip(TheStmt.expr) =
            Binary(Binary(Var("a"), T("Minus"), Var("b"), 0), T("Minus"), Var("c"), 0)

(***************************************************************************)
(* C7: the Or token is folded by the or level, below `and`, equality and   *)
(* comparison: `a op b Or c` with op of one of those levels parses to      *)
(* Logical(Logical(a, op, b), Or, c).                                      *)
(***************************************************************************)
C7_OrBindsLoosest ==
    \A op \in AndOps \cup EqualityOps \cup ComparisonOps :
        (Done /\ input = Chain(<<op, T("Or")>>)) =>
            /\ OneStmt("Expr")
            /\ Strip(TheStmt.expr) =
                    Logical(Logical(Var("a"), op, Var("b"), 0), T("Or"), Var("c"), 0)

(***************************************************************************)
(* C8: `for ( [init] ; [cond] ; [incr] ) body` parses to one For node      *)
(* whose initializer, condition and increment are Some exactly for the     *)
(* clauses that were written.                                              *)
(***************************************************************************)
C8_ForClauses ==
    \A init \in ForInits, cond \in ForConds, incr \in ForIncrs, body \in ForBodies :
        (Done /\ input = ForStmt(init, cond, incr, body)) =>
            /\ OneStmt("For")
            /\ Len(TheStmt.initializer) = (IF init = AbsentInit THEN 0 ELSE 1)
            /\ Len(TheStmt.condition) = (IF cond = <<>> THEN 0 ELSE 1)
            /\ Len(TheStmt.increment) = (IF incr = <<>> THEN 0 ELSE 1)

(***************************************************************************)
(* C9: `print this;` parses to Print(Variable "this") with the span of the *)
(* `this` token, and `this.x;` to an expression statement holding          *)
(* Get(Variable "this", x).                                                *)
(***************************************************************************)
C9_ThisIsVariable ==
    /\ (Done /\ input = <<T("Print"), T("This"), Semicolon>>) =>
            /\ OneStmt("Print")
            /\ TheStmt.expr = Variable("this", 2)
    /\ (Done /\ input = <<T("This"), Dot, Identifier("x"), Semicolon>>) =>
            /\ OneStmt("Expr")
            /\ Strip(TheStmt.expr) = Get(Var("this"), "x", 0)

(***************************************************************************)
(* C10: `super.m;` parses to an expression statement holding               *)
(* Super{name: m}, the three tokens and the terminator being consumed.     *)
(***************************************************************************)
C10_SuperMember ==
    \A m \in {"m", "n"} :
        (Done /\ input = <<T("Super"), Dot, Identifier(m), Semicolon>>) =>
            /\ OneStmt("Expr")
            /\ Strip(TheStmt.expr) = Super(m, 0)
            /\ parser.curr.token = T("Eof")

(***************************************************************************)
(* C11: `let|const name [= expr] ;` parses to exactly one Let statement    *)
(* whose name is the identifier, whose value is Some(expr) exactly when    *)
(* the `= expr` part is written and whose is_const is true exactly for     *)
(* `const`; `let a = 1; print a;` is the two-statement program             *)
(* Let(a, Some(Literal 1), false), Print(Variable a).                      *)
(***************************************************************************)
\* s is the Let statement of the declaration  kw name [= e] ;
IsLet(s, kw, name, e) ==
    /\ s.kind = "Let"
    /\ s.name = name
    /\ s.is_const = (kw = T("Const"))
    /\ Len(s.value) = (IF e = <<>> THEN 0 ELSE 1)
    /\ (e # <<>>) => (Yield(s.value[1]) = e /\ Nested(s.value[1]))

C11_LetDeclaration ==
    /\ \A kw \in LetKeywords, name \in LetNames, e \in InitExprs :
            /\ (Done /\ input = LetDecl(kw, name, e)) =>
                    /\ OneStmt("Let")
                    /\ IsLet(TheStmt, kw, name, e)
            /\ (Done /\ input = LetDecl(kw, name, e) \o <<T("Print"), Identifier(name), Semicolon>>) =>
                    /\ result.ok
                    /\ Len(result.val.stmt) = 2
                    /\ IsLet(result.val.stmt[1], kw, name, e)
                    /\ result.val.stmt[2].kind = "Print"
                    /\ Strip(result.val.stmt[2].expr) = Var(name)
    /\ (Done /\ input = TestAssignmentInput) =>
            /\ result.ok
            /\ Len(result.val.stmt) = 2
            /\ result.val.stmt[1] =
                    StmtLet("a", <<Literal(LiteralType("Number", "1"), 4)>>, FALSE, 2)
            /\ result.val.stmt[2] = StmtPrt(Variable("a", 7), 6)

\* const x ;  is a Let with no value and is_const set
C11_Witness ==
    /\ OneStmt("Let")
    /\ input = LetDecl(T("Const"), "x", <<>>)
    /\ TheStmt.value = <<>>
    /\ TheStmt.is_const

(***************************************************************************)
(* C12: `if ( cond ) S1` parses to one If statement with condition cond,   *)
(* then-branch S1 and no else-branch, `if ( cond ) S1 else S2` to one with *)
(* else-branch Some(S2); the else-branch is present exactly when the token *)
(* after the then-branch is `else`; `a == 1` as condition is a Logical     *)
(* node and a `{ ... }` branch is a Block holding its statements in order. *)
(***************************************************************************)
\* the tokens of a statement tree, read in order
RECURSIVE StmtYield(_), StmtsYield(_)
StmtYield(s) ==
    CASE s.kind = "Expr" -> Yield(s.expr) \o <<Semicolon>>
      [] s.kind = "Print" -> <<T("Print")>> \o Yield(s.expr) \o <<Semicolon>>
      [] s.kind = "Block" -> <<T("LCurly")>> \o StmtsYield(s.stmt) \o <<T("RCurly")>>
      [] s.kind = "If" ->
            IfHead(Yield(s.condition)) \o StmtYield(s.truthy)
            \o (IF s.falsy = <<>> THEN <<>> ELSE <<T("Else")>> \o StmtYield(s.falsy[1]))
      [] OTHER -> <<>>

StmtsYield(ss) == IF ss = <<>> THEN <<>> ELSE StmtYield(Head(ss)) \o StmtsYield(Tail(ss))

\* s is the tree of the branch b
IsBranch(s, b) ==
    IF b.block
        THEN /\ s.kind = "Block"
             /\ Len(s.stmt) = Len(b.stmts)
             /\ \A i \in 1..Len(b.stmts) : StmtYield(s.stmt[i]) = b.stmts[i]
        ELSE /\ s.kind \in {"Expr", "Print"}
             /\ StmtYield(s) = b.stmts[1]

IsCondition(c, cond) ==
    /\ Yield(c) = cond
    /\ (cond = <<Identifier("a"), T("Eq"), Number("1")>>) =>
            Strip(c) = Logical(Var("a"), T("Eq"), Literal(LiteralType("Number", "1"), 0), 0)

C12_IfStatement ==
    /\ \A cond \in IfConds, b1 \in Branches :
            /\ (Done /\ input = IfStmt(cond, b1)) =>
                    /\ OneStmt("If")
                    /\ IsCondition(TheStmt.condition, cond)
                    /\ IsBranch(TheStmt.truthy, b1)
                    /\ TheStmt.falsy = <<>>
            /\ \A b2 \in Branches :
                    (Done /\ input = IfElseStmt(cond, b1, b2)) =>
                        /\ OneStmt("If")
                        /\ IsCondition(TheStmt.condition, cond)
                        /\ IsBranch(TheStmt.truthy, b1)
                        /\ Len(TheStmt.falsy) = 1
                        /\ IsBranch(TheStmt.falsy[1], b2)
    \* the else after the inner then-branch belongs to the inner if
    /\ (Done /\ input = NestedIfInput) =>
            /\ OneStmt("If")
            /\ TheStmt.falsy = <<>>
            /\ TheStmt.truthy.kind = "If"
            /\ Len(TheStmt.truthy.falsy) = 1
            /\ StmtYield(TheStmt) = input
    /\ (Done /\ input = TestIfInput) =>
            /\ OneStmt("If")
            /\ TheStmt.condition =
                    Logical(Variable("a", 3), T("Eq"), Literal(LiteralType("Number", "1"), 5), 4)
            /\ TheStmt.truthy = StmtBlock(<<StmtPrt(Variable("a", 9), 8)>>, 7)
            /\ TheStmt.falsy = <<StmtBlock(<<StmtPrt(Variable("b", 15), 14)>>, 13)>>
            /\ TheStmt.span = 1

\* if ( a == 1 ) { print a ; x ; } else print a ;
C12_Witness ==
    /\ OneStmt("If")
    /\ input = IfElseStmt(<<Identifier("a"), T("Eq"), Number("1")>>,
                          [block |-> TRUE,
                           stmts |-> <<<<T("Print"), Identifier("a"), Semicolon>>,
                                       <<Identifier("x"), Semicolon>>>>],
                          [block |-> FALSE,
                           stmts |-> <<<<T("Print"), Identifier("a"), Semicolon>>>>])
    /\ TheStmt.condition.kind = "Logical"
    /\ Len(TheStmt.truthy.stmt) = 2
    /\ TheStmt.truthy.stmt[1].kind = "Print"
    /\ TheStmt.truthy.stmt[2].kind = "Expr"
    /\ Len(TheStmt.falsy) = 1

(***************************************************************************)
(* C13: whenever parse_program returns Ok, the current token is the        *)
(* end-of-input token, every token before it has been consumed exactly     *)
(* once (as many advances as tokens, one pull each), and the Program holds *)
(* one statement per top-level declaration, in source order.               *)
(***************************************************************************)
\* the end-of-input token of the stream
Eof == TokenInfo(T("Eof"), Len(input) + 1)

C13_OkConsumesAll ==
    /\ (Done /\ result.ok) =>
            /\ result.val.kind = "Program"
            /\ parser.curr = Eof
            /\ parser.advances = Len(input)
            /\ parser.idx = Len(input) + 1
            /\ (input # <<>>) => parser.prev = TokenInfo(input[Len(input)], Len(input))
    /\ \A ds \in DeclLists :
            (Done /\ input = ProgramTokens(ds, Len(ds))) =>
                /\ result.ok
                /\ Len(result.val.stmt) = Len(ds)
                /\ \A i \in 1..Len(ds) :
                        /\ result.val.stmt[i].kind = ds[i].kind
                        /\ result.val.stmt[i].span > Len(ProgramTokens(ds, i - 1))
                        /\ result.val.stmt[i].span <= Len(ProgramTokens(ds, i))

\* function f ( a , b ) { }  print a ;
C13_Witness ==
    /\ Done
    /\ result.ok
    /\ Len(input) = 12
    /\ Len(result.val.stmt) = 2
    /\ result.val.stmt[1].kind = "Function"
    /\ result.val.stmt[2].kind = "Print"
    /\ parser.curr = Eof
    /\ parser.advances = 12

(***************************************************************************)
(* C14: as soon as a production raises an error, parse_program returns     *)
(* exactly that error (same kind, message and span) and no Program; from   *)
(* the raise to the return no token is pulled from the token source and no *)
(* statement is pushed onto a statement list.  An Err result is always an  *)
(* error that a production raised.                                         *)
(***************************************************************************)
C14_FirstErrorPropagates ==
    /\ (Done /\ parser.raised # <<>>) =>
            /\ ~result.ok
            /\ result.val = NoVal
            /\ result.err = parser.raised[1].err
            /\ Len(parser.raised) = 1
            /\ parser.idx = parser.raised[1].idx
            /\ parser.pushed = parser.raised[1].pushed
    /\ (Done /\ ~result.ok) => parser.raised # <<>>

\* if ( a ) { print a ; x  }  else x ; : the error is raised three levels deep,
\* in the block of the then-branch, after one statement has been pushed
C14_Witness ==
    /\ Done
    /\ input = Drop(BlockIfInput, 12)
    /\ ~result.ok
    /\ result.err.kind = "Syntax"
    /\ parser.raised = <<[err |-> result.err, idx |-> parser.idx, pushed |-> 1]>>
    /\ parser.idx < Len(input)

(***************************************************************************)
(* C15: `L op R;` with op an assignment-family operator: a bare Variable n *)
(* as L gives Assign{name: n, value: R}; a Get{object: o, name: f} as L    *)
(* gives Set{object: o, name: f, value: R} with o and f as parsed; R is    *)
(* the or-level expression after the operator.                             *)
(***************************************************************************)
\* e is the node for the left side l (one of Targets) and the right side r
IsAssignment(e, l, r) ==
    /\ Yield(e.value) = r
    /\ Nested(e.value)
    /\ IF Len(l) = 1
           THEN /\ e.kind = "Assign"
                /\ Identifier(e.name) = l[1]
           ELSE /\ e.kind = "Set"
                /\ Identifier(e.name) = l[Len(l)]
                /\ e.object.kind \in {"Variable", "Get"}
                /\ Yield(e.object) = SubSeq(l, 1, Len(l) - 2)

C15_AssignAndSet ==
    /\ \A l \in Targets, op \in AssignOps, r \in RightSides :
            (Done /\ input = AssignStmt(l, op, r)) =>
                /\ OneStmt("Expr")
                /\ IsAssignment(TheStmt.expr, l, r)
    \* a = b + c ;
    /\ (Done /\ input = <<Identifier("a"), T("Assign"), Identifier("b"), T("Plus"),
                           Identifier("c"), Semicolon>>) =>
            Strip(TheStmt.expr) =
                Assign("a", Binary(Var("b"), T("Plus"), Var("c"), 0), 0)
    \* a . b . c = 1 ;
    /\ (Done /\ input = <<Identifier("a"), Dot, Identifier("b"), Dot, Identifier("c"),
                           T("Assign"), Number("1"), Semicolon>>) =>
            Strip(TheStmt.expr) =
                Set(Get(Var("a"), "b", 0), "c", Literal(LiteralType("Number", "1"), 0), 0)

\* a . b += b and c ;
C15_Witness ==
    /\ OneStmt("Expr")
    /\ input = <<Identifier("a"), Dot, Identifier("b"), T("PlusEq"), Identifier("b"),
                 T("LAnd"), Identifier("c"), Semicolon>>
    /\ Strip(TheStmt.expr) =
            Set(Var("a"), "b", Logical(Var("b"), T("LAnd"), Var("c"), 0), 0)

(***************************************************************************)
(* C16: assignment is not chainable.  `a = b = c;` fails to parse: the     *)
(* right side is parsed at the or level, so the second operator is met     *)
(* where the terminator is required.  `a = (b = c);` parses to             *)
(* Assign(a, Grouping(Assign(b, c))).                                      *)
(***************************************************************************)
C16_AssignmentNotChainable ==
    \A op1 \in AssignOps, op2 \in AssignOps :
        /\ (Done /\ input = ChainedAssign(op1, op2)) =>
                /\ ~result.ok
                /\ result.err.kind = "Syntax"
                /\ result.err.expected = "Semicolon"
                /\ result.err.span = 4
                /\ input[result.err.span] = op2
        /\ (Done /\ input = GroupedAssign(op1, op2)) =>
                /\ OneStmt("Expr")
                /\ Strip(TheStmt.expr) =
                        Assign("a", Grouping(Assign("b", Var("c"), 0), 0), 0)

\* a = b = c ;  stops at the second `=`
C16_Witness ==
    /\ Done
    /\ input = ChainedAssign(T("Assign"), T("Assign"))
    /\ ~result.ok
    /\ result.err.expected = "Semicolon"
    /\ parser.prev = TokenInfo(T("Assign"), 4)

(***************************************************************************)
(* C17: get_precedence sorts tokens into the strictly ordered groups       *)
(* Lowest < Lower < Low < Mid < High < Higher < Highest: Eq, Ne are Lower; *)
(* Lt, Gt are Low; Plus, Minus, Not are Mid; Times, Divide are High;       *)
(* LParen is Higher; LBrace is Highest; every other token is Lowest.  Two  *)
(* tokens of one group compare equal, a token of an earlier group compares *)
(* strictly less than a token of a later group.                            *)
(***************************************************************************)
\* the position of the group of a token in the order of the groups
GroupRank(token) ==
    CASE token \in {T("Eq"), T("Ne")} -> 2
      [] token \in {T("Lt"), T("Gt")} -> 3
      [] token \in {T("Plus"), T("Minus"), T("Not")} -> 4
      [] token \in {T("Times"), T("Divide")} -> 5
      [] token = T("LParen") -> 6
      [] token = T("LBrace") -> 7
      [] OTHER -> 1

GroupNames == <<"Lowest", "Lower", "Low", "Mid", "High", "Higher", "Highest">>

C17_PrecedenceGroups ==
    (pc = "compared") =>
        /\ result.val.left = GroupNames[GroupRank(input[1])]
        /\ result.val.right = GroupNames[GroupRank(input[2])]
        /\ result.val.eq = (GroupRank(input[1]) = GroupRank(input[2]))
        /\ result.val.lt = (GroupRank(input[1]) < GroupRank(input[2]))
        /\ ~(result.val.eq /\ result.val.lt)

\* Times against LParen: High is strictly less than Higher
C17_Witness ==
    /\ pc = "compared"
    /\ input = <<T("Times"), T("LParen")>>
    /\ result.val.left = "High"
    /\ result.val.right = "Higher"
    /\ result.val.lt
    /\ ~result.val.eq

(***************************************************************************)
(* C18: when should_be finds a token X different from the expected token   *)
(* E, the syntax error names E as expected and X as found, and its span is *)
(* the span of that same X: the token named as found is the token at the   *)
(* reported span.                                                          *)
(***************************************************************************)
\* the token of the stream at a span (end-of-input after the last token)
TokenAt(span) == IF span \in 1..Len(input) THEN input[span] ELSE T("Eof")

\* parse_program returned the error of a should_be (get_identifier expects "Identifier")
ShouldBeFailed ==
    /\ Done
    /\ ~result.ok
    /\ result.err.kind = "Syntax"
    /\ result.err.expected # "Identifier"

C18_FoundIsTokenAtSpan ==
    ShouldBeFailed =>
        /\ result.err.found = TokenAt(result.err.span)
        /\ result.err.found # T(result.err.expected)

\* what the source does: the span is that of the token stepped over, the
\* token named as found is the one after it
C18_FoundIsTokenAfterSpan ==
    ShouldBeFailed =>
        /\ TokenAt(result.err.span) # T(result.err.expected)
        /\ result.err.found = TokenAt(result.err.span + 1)
        /\ parser.prev.span = result.err.span

(***************************************************************************)
(* C19: on every finite token stream, the source returning end-of-input    *)
(* forever once exhausted, parse_program terminates with Ok or Err.  From  *)
(* every position of the stream: a declaration (the body of the top-level  *)
(* and block loops), a method (the body of the class loop), a parameter,   *)
(* and every run of a fold loop, of the postfix chain and of the argument  *)
(* list either consumes a token or returns an error or does not iterate;   *)
(* a unary operator is stepped over before unary calls itself; an          *)
(* expression that returns without consuming is the `this` primary, on     *)
(* which no loop iterates.  The parse ends at most one token past the end  *)
(* of the stream.                                                          *)
(***************************************************************************)
\* the parser after k calls of advance on the stream
RECURSIVE At(_)
At(k) == IF k = 0 THEN new(input) ELSE advance(At(k - 1))

\* the result r of a step started in p: an error, or at least one token consumed
Consumes(p, r) == r.ok => r.p.idx > p.idx

\* the result r of a loop started in p: an error, no iteration, or tokens consumed
Iterates(p, r) == r.ok => (r.p = p \/ r.p.idx > p.idx)

\* an expression that returned Ok in r without consuming: `this`, left as curr
StallsOnThis(p, r) ==
    (r.ok /\ r.p.idx = p.idx) =>
        /\ p.curr.token = T("This")
        /\ r.p = p
        /\ r.val = Variable("this", p.curr.span)

StepsProgress(p) ==
    /\ Consumes(p, self("declaration", p))
    /\ Consumes(p, self("function_declaration", p))
    /\ get_identifier(p).p.idx > p.idx
    /\ StallsOnThis(p, self("expression", p))
    /\ StallsOnThis(p, self("unary", p))
    /\ (p.curr.token \in UnaryOps) => Consumes(p, self("unary", p))

LoopsProgress(p) ==
    /\ Iterates(p, term_loop(Var("l"), p))
    /\ Iterates(p, factor_loop(Var("l"), p))
    /\ Iterates(p, comparison_loop(Var("l"), p))
    /\ Iterates(p, equality_loop(Var("l"), p))
    /\ Iterates(p, and_loop(Var("l"), p))
    /\ Iterates(p, or_loop(Var("l"), p))
    /\ Iterates(p, call_loop(Var("l"), p))
    /\ Iterates(advance(p), call_args(<<>>, advance(p)))
    /\ Iterates(p, function_params(<<>>, p))
    /\ Iterates(p, block_loop(<<>>, p))
    /\ Iterates(p, class_methods(<<>>, p))
    /\ Iterates(p, program_loop(<<>>, p))

C19_Progress ==
    /\ (pc = "ready") =>
            /\ \A k \in 0..(Len(input) + 1) : StepsProgress(At(k))
            /\ \A k \in 0..(Len(input) + 1) : LoopsProgress(At(k))
    /\ Done =>
            /\ result.ok \/ parser.raised # <<>>
            /\ parser.advances <= Len(input) + 1

Pulled(k) == IF k \in 1..Len(input) THEN TokenInfo(input[k], k) ELSE Eof

\* p holds the last two tokens pulled, and has pulled one more than it advanced
Lookahead(p) ==
    /\ p.idx = p.advances + 1
    /\ p.curr = Pulled(p.idx)
    /\ p.prev = (IF p.advances = 0 THEN TokenInfo(T("Eof"), 0) ELSE Pulled(p.idx - 1))

\* q is p after one advance
OneAdvance(p, q) ==
    /\ q.prev = p.curr
    /\ q.curr = Pulled(p.idx + 1)
    /\ q.idx = p.idx + 1
    /\ q.advances = p.advances + 1

C20_TwoTokenWindow ==
    /\ Lookahead(parser)
    /\ Done => parser.idx >= 1 /\ parser.toks = input
    /\ (pc = "ready") =>
            \A k \in 0..(Len(input) + 1) :
                /\ Lookahead(At(k))
                /\ At(k).idx = k + 1
                /\ OneAdvance(At(k), advance(At(k)))
                /\ OneAdvance(At(k), should_be(At(k), Semicolon).p)
                /\ OneAdvance(At(k), get_identifier(At(k)).p)
                \* the state a declaration started at position k leaves behind
                /\ Lookahead(self("declaration", At(k)).p)
                /\ self("declaration", At(k)).p.idx >= At(k).idx

\* after `let a = 1; print a;` prev is the last Semicolon and curr the end of input
C20_Witness ==
    /\ Done
    /\ input = TestAssignmentInput
    /\ parser.advances = 8
    /\ parser.idx = 9
    /\ parser.prev = TokenInfo(Semicolon, 8)
    /\ parser.curr = Eof

(***************************************************************************)
(* C21: in every Program of a successful parse, the span of each           *)
(* expression and statement node covers at least all the tokens the node   *)
(* was built from: a Binary node's span covers both operands and the       *)
(* operator, a Let node's span the keyword through the terminator.         *)
(* A span of the parser is always the span of one token (the parser copies *)
(* token spans and never joins two), so it covers that token only.         *)
(***************************************************************************)
\* the number of tokens an expression node was built from
RECURSIVE Width(_)
Width(e) ==
    CASE e.kind \in {"Literal", "Variable"} -> 1
      [] e.kind = "Super" -> 3
      [] e.kind = "Grouping" -> Width(e.expr) + 2
      [] e.kind = "Get" -> Width(e.object) + 2
      [] e.kind = "Unary" -> Width(e.right) + 1
      [] e.kind \in {"Binary", "Logical"} -> Width(e.left) + 1 + Width(e.right)
      [] e.kind = "Assign" -> 2 + Width(e.value)
      [] e.kind = "Set" -> Width(e.object) + 3 + Width(e.value)
      [] OTHER -> 0

\* the width of an optional expression
OptWidth(o) == IF o = <<>> THEN 0 ELSE Width(o[1])

\* the number of tokens a statement node was built from; a Function node of
\* a program comes from a declaration and counts its keyword
RECURSIVE StmtWidth(_), StmtsWidth(_)
StmtWidth(s) ==
    CASE s.kind = "Expr" -> Width(s.expr) + 1
      [] s.kind = "Print" -> Width(s.expr) + 2
      [] s.kind = "Return" -> OptWidth(s.value) + 2
      [] s.kind = "Let" -> (IF s.value = <<>> THEN 3 ELSE Width(s.value[1]) + 4)
      [] s.kind = "Block" -> StmtsWidth(s.stmt) + 2
      [] s.kind = "If" ->
            Width(s.condition) + 3 + StmtWidth(s.truthy)
            + (IF s.falsy = <<>> THEN 0 ELSE 1 + StmtWidth(s.falsy[1]))
      [] s.kind = "While" -> Width(s.condition) + 3 + StmtWidth(s.body)
      [] s.kind = "For" ->
            2 + (IF s.initializer = <<>> THEN 0 ELSE StmtWidth(s.initializer[1]))
            + OptWidth(s.condition) + 1 + OptWidth(s.increment) + 1 + StmtWidth(s.body)
      [] s.kind = "Function" ->
            3 + (IF s.params = <<>> THEN 0 ELSE 2 * Len(s.params) - 1) + 1 + StmtWidth(s.body)
      [] OTHER -> 0

StmtsWidth(ss) == IF ss = <<>> THEN 0 ELSE StmtWidth(Head(ss)) + StmtsWidth(Tail(ss))

\* a span against the tokens first..last of its node: "covers" all of them,
\* or is "within" them
SpanIs(how, span, first, last) ==
    IF how = "covers" THEN \A i \in first..last : i = span ELSE span \in first..last

\* every node of the expression e, whose first token is at f, has such a span
RECURSIVE ExprSpans(_, _, _)
ExprSpans(how, e, f) ==
    /\ SpanIs(how, e.span, f, f + Width(e) - 1)
    /\ CASE e.kind = "Grouping" -> ExprSpans(how, e.expr, f + 1)
         [] e.kind = "Get" -> ExprSpans(how, e.object, f)
         [] e.kind = "Unary" -> ExprSpans(how, e.right, f + 1)
         [] e.kind \in {"Binary", "Logical"} ->
                /\ ExprSpans(how, e.left, f)
                /\ ExprSpans(how, e.right, f + Width(e.left) + 1)
         [] e.kind = "Assign" -> ExprSpans(how, e.value, f + 2)
         [] e.kind = "Set" ->
                /\ ExprSpans(how, e.object, f)
                /\ ExprSpans(how, e.value, f + Width(e.object) + 3)
         [] OTHER -> TRUE

OptSpans(how, o, f) == o = <<>> \/ ExprSpans(how, o[1], f)

\* every node of the statement s, whose first token is at f, has such a span
RECURSIVE StmtSpans(_, _, _), StmtsSpans(_, _, _)
StmtSpans(how, s, f) ==
    /\ SpanIs(how, s.span, f, f + StmtWidth(s) - 1)
    /\ CASE s.kind = "Expr" -> ExprSpans(how, s.expr, f)
         [] s.kind = "Print" -> ExprSpans(how, s.expr, f + 1)
         [] s.kind = "Return" -> OptSpans(how, s.value, f + 1)
         [] s.kind = "Let" -> OptSpans(how, s.value, f + 3)
         [] s.kind = "Block" -> StmtsSpans(how, s.stmt, f + 1)
         [] s.kind = "If" ->
                /\ ExprSpans(how, s.condition, f + 2)
                /\ StmtSpans(how, s.truthy, f + 3 + Width(s.condition))
                /\ \/ s.falsy = <<>>
                   \/ StmtSpans(how, s.falsy[1],
                                f + 3 + Width(s.condition) + StmtWidth(s.truthy) + 1)
         [] s.kind = "While" ->
                /\ ExprSpans(how, s.condition, f + 2)
                /\ StmtSpans(how, s.body, f + 3 + Width(s.condition))
         [] s.kind = "For" ->
                /\ s.initializer = <<>> \/ StmtSpans(how, s.initializer[1], f + 2)
                /\ StmtSpans(how, s.body, f + StmtWidth(s) - StmtWidth(s.body))
         [] s.kind = "Function" -> StmtSpans(how, s.body, f + StmtWidth(s) - StmtWidth(s.body))
         [] OTHER -> TRUE

StmtsSpans(how, ss, f) ==
    \/ ss = <<>>
    \/ /\ StmtSpans(how, Head(ss), f)
       /\ StmtsSpans(how, Tail(ss), f + StmtWidth(Head(ss)))

\* a successful parse whose nodes account for every token of the stream
\* (the argument tokens a call drops are in no node)
ParsedWhole ==
    /\ Done
    /\ result.ok
    /\ StmtsWidth(result.val.stmt) = Len(input)

C21_SpansCoverTokens ==
    ParsedWhole => StmtsSpans("covers", result.val.stmt, 1)

\* what the source does: the span of a node is the span of one of the
\* tokens the node was built from
C21_SpanIsOneOwnToken ==
    ParsedWhole => StmtsSpans("within", result.val.stmt, 1)

\* the nodes of a successful parse account for every token, calls apart
C21_WidthsTileInput ==
    (Done /\ result.ok /\ \A i \in 1..Len(input) : input[i] # LParen \/ i = 1
        \/ input[i - 1].tag # "Identifier") => ParsedWhole

(***************************************************************************)
(* C22: the assignment operator is not recorded in the AST.  For every     *)
(* assignable target x, every or-level expression e and every operator op  *)
(* of the assignment family, parsing `x op e` yields the Assign or Set     *)
(* node, spans included, that parsing `x = e` yields.                      *)
(***************************************************************************)
\* the result of parsing `l = r ;`
PlainAssignment(l, r) == parse_program(new(AssignStmt(l, T("Assign"), r)))

C22_OperatorNotRecorded ==
    \A l \in Targets, op \in AssignOps, r \in RightSides :
        (Done /\ input = AssignStmt(l, op, r)) =>
            /\ OneStmt("Expr")
            /\ TheStmt.expr.kind = (IF Len(l) = 1 THEN "Assign" ELSE "Set")
            /\ result.ok = PlainAssignment(l, r).ok
            /\ result.val = PlainAssignment(l, r).val

\* a . b *= b + c ;  gives the node of  a . b = b + c ;
C22_Witness ==
    /\ Done
    /\ input = <<Identifier("a"), Dot, Identifier("b"), T("MulEq"), Identifier("b"),
                 T("Plus"), Identifier("c"), Semicolon>>
    /\ OneStmt("Expr")
    /\ TheStmt.expr =
            Set(Variable("a", 1), "b",
                Binary(Variable("b", 5), T("Plus"), Variable("c", 7), 6), 3)
    /\ result.val = PlainAssignment(SubSeq(input, 1, 3), SubSeq(input, 5, 7)).val

(***************************************************************************)
(* C23: the token-to-precedence mapping agrees with the grammar levels of  *)
(* the parser: for two operator tokens x and y handled at the equality,    *)
(* comparison, term, factor or unary level, get_precedence(x) is strictly  *)
(* less than get_precedence(y) exactly when x is parsed at a strictly      *)
(* looser level than y, and equal exactly when they share a level.         *)
(***************************************************************************)
\* the operator tokens of the five levels
GrammarOps == EqualityOps \cup ComparisonOps \cup TermOps \cup FactorOps \cup UnaryOps

\* the level of the method whose loop (or, for unary, whose test) matches the
\* token, loosest first; Plus and Minus are binary operators of term
GrammarLevel(token) ==
    CASE token \in EqualityOps -> 1
      [] token \in ComparisonOps -> 2
      [] token \in TermOps -> 3
      [] token \in FactorOps -> 4
      [] token \in UnaryOps \ TermOps -> 5
      [] OTHER -> 0

\* the two precedences compare as the grammar levels of the two tokens do
AgreesWithGrammar ==
    /\ result.val.lt = (GrammarLevel(input[1]) < GrammarLevel(input[2]))
    /\ result.val.eq = (GrammarLevel(input[1]) = GrammarLevel(input[2]))

C23_PrecedenceAgreesWithGrammar ==
    (pc = "compared" /\ input[1] \in GrammarOps /\ input[2] \in GrammarOps) =>
        AgreesWithGrammar

\* the operators on which the mapping and the grammar do agree
AgreeingOps ==
    {T("Eq"), T("Ne"), T("Lt"), T("Gt"), T("Plus"), T("Minus"), T("Times"), T("Divide")}

C23_NamedBinaryOperatorsAgree ==
    (pc = "compared" /\ input[1] \in AgreeingOps /\ input[2] \in AgreeingOps) =>
        AgreesWithGrammar

\* each of the other operators disagrees with some operator
C23_OthersDisagree ==
    \A x \in GrammarOps \ AgreeingOps : \E y \in GrammarOps :
        LET a == get_precedence(x)
            b == get_precedence(y)
        IN  \/ PrecedenceLt(a, b) # (GrammarLevel(x) < GrammarLevel(y))
            \/ PrecedenceEq(a, b) # (GrammarLevel(x) = GrammarLevel(y))

====
